---- MODULE Spec2Model ----
(***************************************************************************)
(* Model of paper-master's ingestion and persistence subsystem             *)
(* (src-tauri/src/main.rs, src-tauri/src/db.rs).                           *)
(*                                                                         *)
(* Paths, file names, titles and messages are strings and are computed     *)
(* the way the Rust code computes them (trim_end_matches, file_name,       *)
(* file_stem, format!).  The filesystem is a function from the paths that  *)
(* exist to their bytes; the papers table is the sequence of its rows in   *)
(* insertion order.  Every tauri command is an async task: add_paper is    *)
(* split at its suspension points and system calls, the three read-only    *)
(* commands are one query or one read each.                                *)
(* Startup (init_db: the database locator, the pool, init_tables) and the   *)
(* pool's connection accounting have specifications of their own.          *)
(***************************************************************************)
EXTENDS Integers, Sequences, FiniteSets, TLC

\* ------------------------------------------------------------------ bounds

\* Total number of commands the UI invokes in one run of the model.
MaxCommands == 3
\* The store's clock (CURRENT_TIMESTAMP, one-second resolution) reads 0..MaxTime.
MaxTime == 1

\* Longest database path the path normalizer is given, in characters, not
\* counting the verbatim marker before it, if any.
MaxPathLen == 5
\* Number of statements that can be sent to the pool at once.
NumRequests == 6

\* db.rs 32: SqlitePoolOptions::new().max_connections(5)
max_connections == 5

\* The concurrently running add_paper tasks.
Tasks == {1, 2}

\* The statements in flight on the pool.
Requests == 1..NumRequests

\* ------------------------------------------------------------- environment

\* app_local_data_dir().join("papers")
PapersDir == "/data/papers"

\* The files the user can select, with their bytes.
SourcePaths == {"/a/paper.pdf", "/b/paper.pdf", "/a/paper.pdf.pdf"}
SourceBytes(p) ==
    CASE p = "/a/paper.pdf"     -> "AA"
      [] p = "/b/paper.pdf"     -> "BB"
      [] p = "/a/paper.pdf.pdf" -> "CC"

\* What the file picker can hand to its callback: Option<FilePath>, or nothing
\* at all when the sender is dropped without a send.
Path(p) == [tag |-> "Path", v |-> p]
UrlSel == [tag |-> "Url", v |-> "https://example.org/paper.pdf"]
NoneSel == [tag |-> "None", v |-> ""]
Dropped == [tag |-> "Dropped", v |-> ""]
NotPicked == [tag |-> "NotPicked", v |-> ""]
Selections ==
    {Path(p) : p \in SourcePaths \cup {"/a/.."}} \cup {UrlSel, NoneSel, Dropped}

\* ----------------------------------------------------------------- strings

EndsWith(s, suf) ==
    /\ Len(s) >= Len(suf)
    /\ SubSeq(s, Len(s) - Len(suf) + 1, Len(s)) = suf

StartsWith(s, pre) ==
    /\ Len(s) >= Len(pre)
    /\ SubSeq(s, 1, Len(pre)) = pre

\* str::trim_end_matches: every suffix that matches is removed, repeatedly.
RECURSIVE trim_end_matches(_, _)
trim_end_matches(s, pat) ==
    IF Len(pat) > 0 /\ EndsWith(s, pat)
    THEN trim_end_matches(SubSeq(s, 1, Len(s) - Len(pat)), pat)
    ELSE s

\* The index of the last occurrence of the one-character string ch in
\* s[1..n], 0 when there is none.
RECURSIVE LastIndexOf(_, _, _)
LastIndexOf(s, ch, n) ==
    IF n = 0 THEN 0
    ELSE IF SubSeq(s, n, n) = ch THEN n
    ELSE LastIndexOf(s, ch, n - 1)

Some(v) == [some |-> TRUE, v |-> v]
None == [some |-> FALSE, v |-> ""]

\* Path::file_name: the final component, None when the path ends in "..".
path_file_name(path) ==
    LET i == LastIndexOf(path, "/", Len(path))
        last == SubSeq(path, i + 1, Len(path))
    IN IF last = ".." \/ last = "" THEN None ELSE Some(last)

\* Path::file_stem: the file name without its extension; the whole name when
\* it has no dot, or only a leading one.
path_file_stem(path) ==
    LET n == path_file_name(path)
        i == LastIndexOf(n.v, ".", Len(n.v))
    IN IF ~n.some THEN None
       ELSE IF i <= 1 THEN Some(n.v)
       ELSE Some(SubSeq(n.v, 1, i - 1))

\* PathBuf::join with a relative component.
join(dir, name) == dir \o "/" \o name

\* The verbatim-path marker \\?\ Windows puts before an absolute path.
Marker == "\\\\?\\"

\* The characters database paths are made of: the backslash, the question
\* mark, the slash and a letter.
PathChars == {"\\", "?", "/", "c"}

\* The strings over PathChars of length n.
RECURSIVE PathsOfLen(_)
PathsOfLen(n) ==
    IF n = 0 THEN {""}
    ELSE {s \o ch : s \in PathsOfLen(n - 1), ch \in PathChars}

\* The values db_path (db.rs 26) is drawn from: every short string, and
\* every short string after the marker.
DbPaths ==
    LET short == UNION {PathsOfLen(n) : n \in 0..MaxPathLen}
    IN short \cup {Marker \o s : s \in short}

\* The database path of the installation the commands run in.
HomeDbPath == "/app/paper_master.db"

\* clean_windows_path removing the marker's first three characters only.
clean_windows_path_OffByOne(path) ==
    IF StartsWith(path, Marker) THEN SubSeq(path, 4, Len(path)) ELSE path

\* db.rs 50-57
clean_windows_path(path) ==
    IF StartsWith(path, Marker) THEN SubSeq(path, 5, Len(path)) ELSE path

\* str::replace for a one-character pattern: every occurrence is replaced.
RECURSIVE replace(_, _, _)
replace(s, from, to) ==
    IF s = "" THEN ""
    ELSE (IF SubSeq(s, 1, 1) = from THEN to ELSE SubSeq(s, 1, 1))
             \o replace(SubSeq(s, 2, Len(s)), from, to)

\* db.rs 27-29: the locator handed to connect.
DbUrl(path) ==
    "file:" \o replace(clean_windows_path(path), "\\", "/") \o "?mode=rwc"

\* -------------------------------------------------------------------- state

VARIABLES
    pc,             \* per task: where its add_paper invocation stands
    selected_path,  \* per task: what the picker sent (then the chosen PathBuf)
    file_name,      \* per task: the source's file name
    counter,        \* per task: the suffix the next candidate gets
    final_dest,     \* per task: the current destination candidate
    inv,            \* per task: the number of its current invocation
    files,          \* the filesystem: existing path -> bytes
    papers_dir,     \* whether the papers directory exists
    rows,           \* the papers table, in insertion order
    seq,            \* sqlite_sequence: the last AUTOINCREMENT id handed out
    now,            \* the store's clock as the latest insert read it
    ret,            \* what the step just taken returned to the caller, if anything
    started,        \* history: commands invoked
    successes,      \* history: add_paper invocations that returned "Paper added"
    origin,         \* history: row id -> the invocation and source that made it
    before,         \* history: per task, the filesystem when its invocation began
    app,            \* "up" once setup has the pool, "down" before and after a panic or exit
    db_path,        \* current_dir().join("paper_master.db")
    db_url,         \* the locator init_db last connected with
    conn            \* per statement sent to the pool: where it stands

vars == <<pc, selected_path, file_name, counter, final_dest, inv, files,
          papers_dir, rows, seq, now, ret, started, successes, origin, before,
          app, db_path, db_url, conn>>

locals == <<selected_path, file_name, counter, final_dest>>
store == <<rows, seq>>
history == <<started, successes, origin, before>>
setup == <<app, db_path, db_url>>

\* Result<_, String> handed back to the caller of a command.
Ok(v) == [ok |-> TRUE, val |-> v]
Err(e) == [ok |-> FALSE, val |-> e]

Returned(cmd, i, res) == [cmd |-> cmd, inv |-> i, ok |-> res.ok, val |-> res.val]
NoReturn == [cmd |-> "none", inv |-> 0, ok |-> TRUE, val |-> ""]

\* No statement is in flight on the pool.
PoolIdle == [r \in Requests |-> [st |-> "idle", op |-> "none"]]

\* A fresh installation: no ingestion running, nothing stored.
Installed ==
    /\ pc = [t \in Tasks |-> "idle"]
    /\ selected_path = [t \in Tasks |-> NotPicked]
    /\ file_name = [t \in Tasks |-> ""]
    /\ counter = [t \in Tasks |-> 1]
    /\ final_dest = [t \in Tasks |-> ""]
    /\ inv = [t \in Tasks |-> 0]
    /\ files = [p \in SourcePaths |-> SourceBytes(p)]
    /\ papers_dir = FALSE
    /\ rows = <<>>
    /\ seq = 0
    /\ now = 0
    /\ ret = NoReturn
    /\ started = 0
    /\ successes = 0
    /\ origin = <<>>
    /\ before = [t \in Tasks |-> <<>>]
    /\ conn = PoolIdle

\* The application is running: setup has called init_db (main.rs 129-133).
Init ==
    /\ Installed
    /\ app = "up"
    /\ db_path = HomeDbPath
    /\ db_url = DbUrl(HomeDbPath)

\* ------------------------------------------------------- pieces of the code

\* MatchSelected with a cancelled picker reported as a failure.
MatchSelected_CancelIsError(sel) ==
    CASE sel.tag = "Dropped" -> [done |-> TRUE, res |-> Err("File dialog cancelled")]
      [] sel.tag = "Url"     -> [done |-> TRUE, res |-> Err("URL selection not supported")]
      [] sel.tag = "None"    -> [done |-> TRUE, res |-> Err("File dialog cancelled")]
      [] sel.tag = "Path"    -> [done |-> FALSE, res |-> Ok(sel.v)]

\* MatchSelected with a URL taken for a local path.
MatchSelected_UrlAsPath(sel) ==
    CASE sel.tag = "Dropped" -> [done |-> TRUE, res |-> Err("File dialog cancelled")]
      [] sel.tag = "Url"     -> [done |-> FALSE, res |-> Ok(sel.v)]
      [] sel.tag = "None"    -> [done |-> TRUE, res |-> Ok("No file selected")]
      [] sel.tag = "Path"    -> [done |-> FALSE, res |-> Ok(sel.v)]

\* main.rs 66-73: the await on the oneshot channel and the match on what the
\* picker sent.  done: the command returns res; otherwise res.val is the path.
MatchSelected(sel) ==
    CASE sel.tag = "Dropped" -> [done |-> TRUE, res |-> Err("File dialog cancelled")]
      [] sel.tag = "Url"     -> [done |-> TRUE, res |-> Err("URL selection not supported")]
      [] sel.tag = "None"    -> [done |-> TRUE, res |-> Ok("No file selected")]
      [] sel.tag = "Path"    -> [done |-> FALSE, res |-> Ok(sel.v)]

\* new_name that leaves the counter out of the candidate.
new_name_NoCounter(name, k) ==
    trim_end_matches(name, ".pdf") \o "_1.pdf"

\* new_name with the counter one behind.
new_name_OffByOne(name, k) ==
    trim_end_matches(name, ".pdf") \o "_" \o ToString(k - 1) \o ".pdf"

\* main.rs 97: format!("{}_{}.pdf", file_name.trim_end_matches(".pdf"), counter)
new_name(name, k) ==
    trim_end_matches(name, ".pdf") \o "_" \o ToString(k) \o ".pdf"

\* Path::exists
exists(path) == path \in DOMAIN files

\* The filesystem with bytes written at path.
Written(fs, path, bytes) ==
    [p \in DOMAIN fs \cup {path} |-> IF p = path THEN bytes ELSE fs[p]]

\* What a copy that fails midway leaves at the destination.
Partial(bytes) == SubSeq(bytes, 1, 1)

\* fs_copy with the failure to open the source swallowed.
fs_copy_ErrorIgnored(fs, from, to, how) ==
    CASE how = "ok"         -> [res |-> Ok(Len(fs[from])), fs |-> Written(fs, to, fs[from])]
      [] how = "unreadable" -> [res |-> Ok(0), fs |-> fs]
      [] how = "partial"    -> [res |-> Err("Copy failed: no space left on device"),
                                fs |-> Written(fs, to, Partial(fs[from]))]

\* fs_copy opening the destination with create_new: it fails when a file is
\* already there.
fs_copy_CreateNew(fs, from, to, how) ==
    CASE to \in DOMAIN fs   -> [res |-> Err("Copy failed: file exists"), fs |-> fs]
      [] how = "ok"         -> [res |-> Ok(Len(fs[from])), fs |-> Written(fs, to, fs[from])]
      [] how = "unreadable" -> [res |-> Err("Copy failed: permission denied"), fs |-> fs]
      [] how = "partial"    -> [res |-> Err("Copy failed: no space left on device"),
                                fs |-> Written(fs, to, Partial(fs[from]))]

\* main.rs 103: fs::copy.  how: "ok"; "unreadable" (the source cannot be
\* opened, the destination is not touched); "partial" (the destination is
\* created or truncated and the write then fails).
fs_copy(fs, from, to, how) ==
    CASE how = "ok"         -> [res |-> Ok(Len(fs[from])), fs |-> Written(fs, to, fs[from])]
      [] how = "unreadable" -> [res |-> Err("Copy failed: permission denied"), fs |-> fs]
      [] how = "partial"    -> [res |-> Err("Copy failed: no space left on device"),
                                fs |-> Written(fs, to, Partial(fs[from]))]
CopyOutcomes == {"ok", "unreadable", "partial"}

\* DeriveTitle removing every trailing ".pdf", as the destination loop does.
DeriveTitle_TrimEvery(dest) ==
    LET n == path_file_name(dest)
    IN IF n.some THEN trim_end_matches(n.v, ".pdf") ELSE "Untitled"

\* main.rs 106-110
DeriveTitle(dest) ==
    LET stem == path_file_stem(dest)
    IN IF stem.some THEN stem.v ELSE "Untitled"

\* How a statement sent to the pool can end: it runs, or sqlx reports an
\* error (the database is locked, the disk is full, an I/O error).
DbOutcomes == {"ok", "error"}

\* NewRow taking the last id issued instead of the next one.
NewRow_ReuseId(title, pdf_path, ts) ==
    [id |-> IF seq = 0 THEN 1 ELSE seq, title |-> title, pdf_path |-> pdf_path,
     created_at |-> ts]

\* db.rs 59-81 and 83-101: the row INSERT INTO papers (title, pdf_path) makes:
\* id from AUTOINCREMENT, created_at from DEFAULT CURRENT_TIMESTAMP read as ts.
NewRow(title, pdf_path, ts) ==
    [id |-> seq + 1, title |-> title, pdf_path |-> pdf_path, created_at |-> ts]

\* insert_paper with the row left in the table when the statement fails.
insert_paper_RowOnError(title, pdf_path, ts, db) ==
    [res |-> IF db = "ok" THEN Ok(seq + 1) ELSE Err("database is locked"),
     rows |-> Append(rows, NewRow(title, pdf_path, ts)),
     seq |-> seq + 1]

\* db.rs 83-101
insert_paper(title, pdf_path, ts, db) ==
    IF db = "ok"
    THEN [res |-> Ok(seq + 1), rows |-> Append(rows, NewRow(title, pdf_path, ts)),
          seq |-> seq + 1]
    ELSE [res |-> Err("database is locked"), rows |-> rows, seq |-> seq]

\* init_tables dropping the table before it creates it.
init_tables_Recreate(db) ==
    IF db = "ok"
    THEN [res |-> Ok(""), rows |-> <<>>, seq |-> 0]
    ELSE [res |-> Err("Failed to create table: database is locked"),
          rows |-> rows, seq |-> seq]

\* db.rs 59-81: CREATE TABLE IF NOT EXISTS papers.  The table that is there,
\* empty in a new database file, is kept with its rows and its id sequence.
init_tables(db) ==
    IF db = "ok"
    THEN [res |-> Ok(""), rows |-> rows, seq |-> seq]
    ELSE [res |-> Err("Failed to create table: database is locked"),
          rows |-> rows, seq |-> seq]

\* ORDER BY created_at ASC
OrderedAsc(s) ==
    \A i, j \in 1..Len(s) : i < j => s[i].created_at <= s[j].created_at

\* ORDER BY created_at DESC
OrderedDesc(s) ==
    \A i, j \in 1..Len(s) : i < j => s[i].created_at >= s[j].created_at

\* db.rs 105-112: every result the query can give; rows with equal
\* created_at come in an order the store chooses.
get_all_papers(db) ==
    IF db = "ok"
    THEN {Ok(s) : s \in {q \in {[i \in 1..Len(rows) |-> rows[f[i]]] :
                                   f \in Permutations(1..Len(rows))} : OrderedDesc(q)}}
    ELSE {Err("Faled to fetch the papers: database is locked")}

\* db_test counting the stored files, SELECT COUNT(DISTINCT pdf_path).
db_test_result_Distinct(db) ==
    IF db = "ok"
    THEN Ok("Database connected. Papers stored: "
            \o ToString(Cardinality({rows[i].pdf_path : i \in 1..Len(rows)})))
    ELSE Err("database is locked")

\* main.rs 43-50
db_test_result(db) ==
    IF db = "ok"
    THEN Ok("Database connected. Papers stored: " \o ToString(Len(rows)))
    ELSE Err("database is locked")

\* main.rs 19-26
read_pdf_file(path) ==
    IF exists(path) THEN Ok(files[path])
    ELSE Err("Failed to read PDF: No such file or directory")

\* ------------------------------------------------------------------ add_paper

\* add_paper returns res to its caller: the task ends and its locals are dropped.
Finish(t, res) ==
    /\ pc' = [pc EXCEPT ![t] = "idle"]
    /\ selected_path' = [selected_path EXCEPT ![t] = NotPicked]
    /\ file_name' = [file_name EXCEPT ![t] = ""]
    /\ counter' = [counter EXCEPT ![t] = 1]
    /\ final_dest' = [final_dest EXCEPT ![t] = ""]
    /\ inv' = [inv EXCEPT ![t] = 0]
    /\ before' = [before EXCEPT ![t] = <<>>]
    /\ ret' = Returned("add_paper", inv[t], res)

\* main.rs 53-63: the command is invoked and opens the file picker, whose
\* callback sends the user's answer (or is dropped without sending).
Invoke(t) ==
    /\ pc[t] = "idle"
    /\ started < MaxCommands
    /\ \E sel \in Selections :
          selected_path' = [selected_path EXCEPT ![t] = sel]
    /\ pc' = [pc EXCEPT ![t] = "selected"]
    /\ started' = started + 1
    /\ inv' = [inv EXCEPT ![t] = started + 1]
    /\ ret' = NoReturn
    /\ before' = [before EXCEPT ![t] = files]
    /\ UNCHANGED <<file_name, counter, final_dest, files, papers_dir, store, now,
                   successes, origin>>
    /\ UNCHANGED <<setup, conn>>

\* main.rs 65-73: the task resumes with the answer.
AwaitSelection(t) ==
    /\ pc[t] = "selected"
    /\ LET m == MatchSelected(selected_path[t])
       IN IF m.done
          THEN Finish(t, m.res)
          ELSE /\ pc' = [pc EXCEPT ![t] = "resolve"]
               /\ ret' = NoReturn
               /\ UNCHANGED <<locals, inv, before>>
    /\ UNCHANGED <<files, papers_dir, store, now, started, successes, origin>>
    /\ UNCHANGED <<setup, conn>>

\* How resolving and creating the papers directory can end.
ResolveOutcomes == {"ok", "no_data_dir", "mkdir_failed"}

\* main.rs 75-95: the papers directory is resolved and created, the file name
\* taken from the source path, the first candidate set.
ResolveDir(t) ==
    /\ pc[t] = "resolve"
    /\ \E how \in ResolveOutcomes :
          LET n == path_file_name(selected_path[t].v)
          IN CASE how = "no_data_dir" ->
                    /\ Finish(t, Err("Path resolve error: unknown path"))
                    /\ UNCHANGED papers_dir
               [] how = "mkdir_failed" ->
                    /\ Finish(t, Err("Permission denied (os error 13)"))
                    /\ UNCHANGED papers_dir
               [] how = "ok" ->
                    /\ papers_dir' = TRUE
                    /\ IF ~n.some
                       THEN Finish(t, Err("Invalid file name"))
                       ELSE /\ pc' = [pc EXCEPT ![t] = "exists"]
                            /\ file_name' = [file_name EXCEPT ![t] = n.v]
                            /\ final_dest' = [final_dest EXCEPT ![t] = join(PapersDir, n.v)]
                            /\ counter' = [counter EXCEPT ![t] = 1]
                            /\ ret' = NoReturn
                            /\ UNCHANGED <<selected_path, inv, before>>
    /\ UNCHANGED <<files, store, now, started, successes, origin>>
    /\ UNCHANGED <<setup, conn>>

\* main.rs 96-100: one evaluation of the loop condition, and of the body when
\* the candidate exists.
CheckExists(t) ==
    /\ pc[t] = "exists"
    /\ IF exists(final_dest[t])
       THEN /\ final_dest' = [final_dest EXCEPT
                                ![t] = join(PapersDir, new_name(file_name[t], counter[t]))]
            /\ counter' = [counter EXCEPT ![t] = counter[t] + 1]
            /\ UNCHANGED pc
       ELSE /\ pc' = [pc EXCEPT ![t] = "copy"]
            /\ UNCHANGED <<final_dest, counter>>
    /\ ret' = NoReturn
    /\ UNCHANGED <<selected_path, file_name, inv, files, papers_dir, store, now,
                   history>>
    /\ UNCHANGED <<setup, conn>>

\* main.rs 102-103
CopyFile(t) ==
    /\ pc[t] = "copy"
    /\ \E how \in CopyOutcomes :
          LET c == fs_copy(files, selected_path[t].v, final_dest[t], how)
          IN /\ files' = c.fs
             /\ IF c.res.ok
                THEN /\ pc' = [pc EXCEPT ![t] = "insert"]
                     /\ ret' = NoReturn
                     /\ UNCHANGED <<locals, inv, before>>
                ELSE Finish(t, c.res)
    /\ UNCHANGED <<papers_dir, store, now, started, successes, origin>>
    /\ UNCHANGED <<setup, conn>>

\* main.rs 106-117.  The store reads its clock, which never runs backwards.
InsertPaper(t) ==
    /\ pc[t] = "insert"
    /\ \E db \in DbOutcomes, ts \in now..MaxTime :
       LET i == insert_paper(DeriveTitle(final_dest[t]), final_dest[t], ts, db)
       IN /\ rows' = i.rows
          /\ seq' = i.seq
          /\ IF i.res.ok
             THEN /\ pc' = [pc EXCEPT ![t] = "return"]
                  /\ now' = ts
                  /\ origin' = Append(origin, [inv |-> inv[t], src |-> selected_path[t].v])
                  /\ ret' = NoReturn
                  /\ UNCHANGED <<locals, inv, before>>
             ELSE /\ Finish(t, Err("Database insert failed: " \o i.res.val))
                  /\ UNCHANGED <<origin, now>>
    /\ UNCHANGED <<files, papers_dir, started, successes>>
    /\ UNCHANGED <<setup, conn>>

\* main.rs 119
Return(t) ==
    /\ pc[t] = "return"
    /\ Finish(t, Ok("Paper added successfully: " \o DeriveTitle(final_dest[t])))
    /\ successes' = successes + 1
    /\ UNCHANGED <<files, papers_dir, store, now, started, origin>>
    /\ UNCHANGED <<setup, conn>>

add_paper(t) ==
    \/ Invoke(t)
    \/ AwaitSelection(t)
    \/ ResolveDir(t)
    \/ CheckExists(t)
    \/ CopyFile(t)
    \/ InsertPaper(t)
    \/ Return(t)

\* ------------------------------------------------------- read-only commands

\* main.rs 30-36
get_papers ==
    /\ \E db \in DbOutcomes :
          \E res \in get_all_papers(db) : ret' = Returned("get_papers", 0, res)
    /\ started < MaxCommands
    /\ started' = started + 1
    /\ UNCHANGED <<pc, locals, inv, files, papers_dir, store, now, successes, origin,
                   before>>
    /\ UNCHANGED <<setup, conn>>

\* main.rs 43-50
db_test ==
    /\ \E db \in DbOutcomes : ret' = Returned("db_test", 0, db_test_result(db))
    /\ started < MaxCommands
    /\ started' = started + 1
    /\ UNCHANGED <<pc, locals, inv, files, papers_dir, store, now, successes, origin,
                   before>>
    /\ UNCHANGED <<setup, conn>>

\* The paths the viewer asks for: the stored rows' and one that is not there.
ReadPaths == {rows[i].pdf_path : i \in 1..Len(rows)} \cup {join(PapersDir, "missing.pdf")}

\* ReadPdfFile opening the path with the create flag: a missing file is
\* created empty before the read.
ReadPdfFile_Create ==
    /\ \E path \in ReadPaths :
          /\ ret' = Returned("read_pdf_file", 0, read_pdf_file(path))
          /\ files' = IF exists(path) THEN files ELSE Written(files, path, "")
    /\ started < MaxCommands
    /\ started' = started + 1
    /\ UNCHANGED <<pc, locals, inv, papers_dir, store, now, successes, origin,
                   before>>
    /\ UNCHANGED <<setup, conn>>

\* main.rs 19-26
ReadPdfFile ==
    /\ \E path \in ReadPaths : ret' = Returned("read_pdf_file", 0, read_pdf_file(path))
    /\ started < MaxCommands
    /\ started' = started + 1
    /\ UNCHANGED <<pc, locals, inv, files, papers_dir, store, now, successes, origin,
                   before>>
    /\ UNCHANGED <<setup, conn>>

\* ------------------------------------------------------------------ startup

\* db.rs 20-48, called from setup (main.rs 129-133): the locator is computed
\* from db_path, the pool connects and init_tables runs.  When either fails
\* setup panics and the application stays down.
init_db ==
    /\ app = "down"
    /\ \E c \in DbOutcomes, db \in DbOutcomes :
          LET url == DbUrl(db_path)
              t == init_tables(db)
          IN /\ db_url' = url
             /\ IF c = "ok"
                THEN /\ rows' = t.rows
                     /\ seq' = t.seq
                     /\ app' = IF t.res.ok THEN "up" ELSE "down"
                     /\ ret' = Returned("init_db", 0, IF t.res.ok THEN Ok(url) ELSE t.res)
                ELSE /\ ret' = Returned("init_db", 0,
                                   Err("Database connection failed: unable to open database file"))
                     /\ UNCHANGED <<app, store>>
    /\ UNCHANGED <<pc, locals, inv, files, papers_dir, now, history, db_path, conn>>

\* main.rs 136-137: run returns, or the process is killed.  The tasks in
\* flight end where they are; the files and the database file stay.
Exit ==
    /\ app = "up"
    /\ app' = "down"
    /\ pc' = [t \in Tasks |-> "idle"]
    /\ selected_path' = [t \in Tasks |-> NotPicked]
    /\ file_name' = [t \in Tasks |-> ""]
    /\ counter' = [t \in Tasks |-> 1]
    /\ final_dest' = [t \in Tasks |-> ""]
    /\ inv' = [t \in Tasks |-> 0]
    /\ before' = [t \in Tasks |-> <<>>]
    /\ ret' = NoReturn
    /\ UNCHANGED <<files, papers_dir, store, now, started, successes, origin,
                   db_path, db_url, conn>>

\* ----------------------------------------------------------- connection pool

\* The statements the commands send to the pool: the INSERT of insert_paper
\* (db.rs 87-96), the SELECT of get_all_papers (db.rs 105-112) and the
\* SELECT COUNT(*) of db_test (main.rs 43-50).
Statements == {"insert", "list", "count"}

\* The statements that hold one of the pool's connections.
Holding == {r \in Requests : conn[r].st = "holding"}

\* Acquire handing out a connection whatever the number checked out.
Acquire_NoLimit(r) ==
    /\ conn[r].st = "waiting"
    /\ conn' = [conn EXCEPT ![r].st = "holding"]
    /\ ret' = NoReturn
    /\ UNCHANGED <<pc, locals, inv, files, papers_dir, store, now, history, setup>>

\* A command calls execute, fetch_all or fetch_one on the pool.
Send(r) ==
    /\ app = "up"
    /\ conn[r].st = "idle"
    /\ \E op \in Statements : conn' = [conn EXCEPT ![r] = [st |-> "waiting", op |-> op]]
    /\ ret' = NoReturn
    /\ UNCHANGED <<pc, locals, inv, files, papers_dir, store, now, history, setup>>

\* The pool hands the statement a connection: one of the max_connections
\* (db.rs 32) must be free.
Acquire(r) ==
    /\ conn[r].st = "waiting"
    /\ Cardinality(Holding) < max_connections
    /\ conn' = [conn EXCEPT ![r].st = "holding"]
    /\ ret' = NoReturn
    /\ UNCHANGED <<pc, locals, inv, files, papers_dir, store, now, history, setup>>

\* The statement has run: its connection goes back to the pool.
Complete(r) ==
    /\ conn[r].st = "holding"
    /\ conn' = [conn EXCEPT ![r] = [st |-> "idle", op |-> "none"]]
    /\ ret' = NoReturn
    /\ UNCHANGED <<pc, locals, inv, files, papers_dir, store, now, history, setup>>

\* No connection came free within the pool's acquire timeout (the code sets
\* none, so the library's default applies): the statement fails.
TimeOut(r) ==
    /\ conn[r].st = "waiting"
    /\ Cardinality(Holding) = max_connections
    /\ conn' = [conn EXCEPT ![r] = [st |-> "idle", op |-> "none"]]
    /\ ret' = NoReturn
    /\ UNCHANGED <<pc, locals, inv, files, papers_dir, store, now, history, setup>>

\* ------------------------------------------------------------ specification

Next ==
    \/ \E t \in Tasks : add_paper(t)
    \/ get_papers
    \/ db_test
    \/ ReadPdfFile

Spec == Init /\ [][Next]_vars

\* No other ingestion is in flight.
Alone(t) == \A u \in Tasks \ {t} : pc[u] = "idle"

\* The same program with the add_paper invocations run one at a time.
NextSeq ==
    \/ \E t \in Tasks : Alone(t) /\ add_paper(t)
    \/ get_papers
    \/ db_test
    \/ ReadPdfFile

SpecSeq == Init /\ [][NextSeq]_vars

\* The program across exits and restarts.
NextRestart ==
    \/ app = "up" /\ Next
    \/ Exit
    \/ init_db

SpecRestart == Init /\ [][NextRestart]_vars

\* The application is launched in some working directory and setup has not
\* called init_db yet.
InitPath ==
    /\ Installed
    /\ app = "down"
    /\ db_path \in DbPaths
    /\ db_url = ""

NextPath == init_db

\* init_db on every database path.
SpecPath == InitPath /\ [][NextPath]_vars

NextPool == \E r \in Requests : Send(r) \/ Acquire(r) \/ Complete(r) \/ TimeOut(r)

\* The statements of any number of commands on the pool.
SpecPool == Init /\ [][NextPool]_vars

\* ------------------------------------------------------------------- claims

\* A path under the papers directory: a managed file.
Managed(p) == StartsWith(p, PapersDir \o "/")

\* C1: in every reachable state, whatever the interleaving of the add_paper
\* invocations, no two rows of the papers table have the same pdf_path.
C1_UniquePdfPath ==
    \A i, j \in 1..Len(rows) : i # j => rows[i].pdf_path # rows[j].pdf_path

\* The name with one trailing ".pdf" removed, if it has one.
StripOnePdf(name) ==
    IF EndsWith(name, ".pdf") THEN SubSeq(name, 1, Len(name) - 4) ELSE name

\* The name with every trailing ".pdf" removed: its longest prefix that does
\* not end in ".pdf" and is followed by ".pdf" suffixes only.
StripEveryPdf(name) ==
    CHOOSE stem \in {SubSeq(name, 1, n) : n \in 0..Len(name)} :
        /\ ~EndsWith(stem, ".pdf")
        /\ (Len(name) - Len(stem)) % 4 = 0
        /\ \A k \in 1..((Len(name) - Len(stem)) \div 4) :
              SubSeq(name, Len(stem) + 4 * k - 3, Len(stem) + 4 * k) = ".pdf"

\* papers_dir/<stem>_k.pdf
Suffixed(stem, k) == join(PapersDir, stem \o "_" \o ToString(k) \o ".pdf")

\* The destination the naming rule gives for a source named name, its stem
\* being stem, on the filesystem as it is: papers_dir/name when that is free,
\* else papers_dir/<stem>_k.pdf for the smallest k >= 1 that is free.
RuleDest(name, stem) ==
    IF ~exists(join(PapersDir, name))
    THEN join(PapersDir, name)
    ELSE LET k == CHOOSE n \in 1..(Cardinality(DOMAIN files) + 1) :
                      /\ ~exists(Suffixed(stem, n))
                      /\ \A m \in 1..(n - 1) : exists(Suffixed(stem, m))
         IN Suffixed(stem, k)

\* C2 as stated: run without interleaving, add_paper leaves its loop with the
\* destination papers_dir/<base name> when that is free, else with
\* papers_dir/<base name with the .pdf suffix stripped>_k.pdf for the smallest
\* free k >= 1, and the source's bytes are then stored there.
C2_DestinationOneSuffix ==
    \A t \in Tasks :
        /\ pc[t] = "copy" =>
              final_dest[t] = RuleDest(file_name[t], StripOnePdf(file_name[t]))
        /\ pc[t] = "insert" => read_pdf_file(final_dest[t]) = Ok(files[selected_path[t].v])

\* C2 as amended: the same with every trailing ".pdf" of the base name
\* stripped (paper.pdf.pdf is stored next as paper_1.pdf); with paper.pdf
\* stored, a second paper.pdf becomes paper_1.pdf and a third paper_2.pdf.
C2_Destination ==
    \A t \in Tasks :
        /\ pc[t] = "copy" =>
              final_dest[t] = RuleDest(file_name[t], StripEveryPdf(file_name[t]))
        /\ pc[t] = "insert" => read_pdf_file(final_dest[t]) = Ok(files[selected_path[t].v])
        /\ (pc[t] = "copy" /\ file_name[t] = "paper.pdf"
                /\ exists(join(PapersDir, "paper.pdf"))
                /\ ~exists(join(PapersDir, "paper_1.pdf"))) =>
              final_dest[t] = join(PapersDir, "paper_1.pdf")
        /\ (pc[t] = "copy" /\ file_name[t] = "paper.pdf"
                /\ exists(join(PapersDir, "paper.pdf"))
                /\ exists(join(PapersDir, "paper_1.pdf"))
                /\ ~exists(join(PapersDir, "paper_2.pdf"))) =>
              final_dest[t] = join(PapersDir, "paper_2.pdf")

\* C2's case: a third paper.pdf is about to be stored as paper_2.pdf.
C2_Witness ==
    \E t \in Tasks :
        /\ pc[t] = "copy"
        /\ file_name[t] = "paper.pdf"
        /\ final_dest[t] = join(PapersDir, "paper_2.pdf")

\* C3: every managed file present when an add_paper invocation begins still
\* exists with the same bytes when that invocation finishes.
C3_NoOverwrite ==
    [][\A t \in Tasks :
          (pc[t] # "idle" /\ pc'[t] = "idle") =>
              \A p \in DOMAIN before[t] :
                  Managed(p) => (p \in DOMAIN files' /\ files'[p] = before[t][p])]_vars

\* C4: read_pdf_file on a row's pdf_path returns the bytes of the source
\* selected in the ingestion that made the row, in every state after the
\* row is created.
C4_RoundTrip ==
    \A i \in 1..Len(rows) :
        read_pdf_file(rows[i].pdf_path) = Ok(SourceBytes(origin[i].src))

\* What no step of a cancelled or refused ingestion may touch.
StoreAndFiles == <<rows, seq, files, papers_dir>>

\* C5: when the picker reports cancellation (no path chosen), add_paper
\* returns Ok("No file selected"), and no step of that invocation inserts a
\* row or creates, modifies or deletes a file or directory.
C5_CancelIsNoOp ==
    [][\A t \in Tasks :
          /\ (pc[t] = "idle" /\ pc'[t] = "selected" /\ selected_path'[t] = NoneSel)
                => UNCHANGED StoreAndFiles
          /\ (pc[t] = "selected" /\ selected_path[t] = NoneSel /\ pc'[t] # "selected")
                => /\ pc'[t] = "idle"
                   /\ ret' = Returned("add_paper", inv[t], Ok("No file selected"))
                   /\ UNCHANGED StoreAndFiles]_vars

\* C5's case: a cancelled add_paper has returned, with papers already stored.
C5_Witness ==
    /\ ret.cmd = "add_paper"
    /\ ret.ok
    /\ ret.val = "No file selected"
    /\ Len(rows) >= 1
    /\ papers_dir

\* C6: when the picker yields a URL, add_paper returns the error "URL
\* selection not supported", and no step of that invocation inserts a row or
\* creates, modifies or deletes a file or directory.
C6_UrlIsRefused ==
    [][\A t \in Tasks :
          /\ (pc[t] = "idle" /\ pc'[t] = "selected" /\ selected_path'[t] = UrlSel)
                => UNCHANGED StoreAndFiles
          /\ (pc[t] = "selected" /\ selected_path[t] = UrlSel /\ pc'[t] # "selected")
                => /\ pc'[t] = "idle"
                   /\ ret' = Returned("add_paper", inv[t], Err("URL selection not supported"))
                   /\ UNCHANGED StoreAndFiles]_vars

\* C6's case: a URL was refused before the papers directory was ever made.
C6_Witness ==
    /\ ret.cmd = "add_paper"
    /\ ~ret.ok
    /\ ret.val = "URL selection not supported"
    /\ ~papers_dir
    /\ rows = <<>>

\* C7: with N rows inserted so far into the initially empty store, a
\* get_papers the store answers returns exactly N records, one per inserted
\* row, in non-increasing order of created_at; on the empty table the query
\* gives the empty sequence and not an error.
C7_ListAll ==
    /\ (ret.cmd = "get_papers" /\ ret.ok) =>
          /\ Len(ret.val) = Len(origin)
          /\ \A id \in 1..Len(origin) :
                Cardinality({i \in 1..Len(ret.val) : ret.val[i] = rows[id]}) = 1
          /\ \A i \in 1..(Len(ret.val) - 1) :
                ret.val[i].created_at >= ret.val[i + 1].created_at
    /\ (ret.cmd = "get_papers" /\ ~ret.ok) =>
          ret.val = "Faled to fetch the papers: database is locked"
    /\ Len(origin) = 0 => get_all_papers("ok") = {Ok(<<>>)}

\* C7's case: two papers inserted at different times are listed, the later first.
C7_Witness ==
    /\ ret.cmd = "get_papers"
    /\ ret.ok
    /\ Len(ret.val) = 2
    /\ ret.val[1].created_at > ret.val[2].created_at
    /\ ret.val[1].id = 2

\* Tasks whose row is inserted and whose add_paper has not returned yet.
Returning == {t \in Tasks : pc[t] = "return"}

CountMessage(n) == "Database connected. Papers stored: " \o ToString(n)

\* C8 as stated: the count db_test reports equals the number of add_paper
\* invocations that have returned success so far.
C8_CountIsReturnedSuccesses ==
    (ret.cmd = "db_test" /\ ret.ok) => ret.val = CountMessage(successes)

\* C8 as amended: the count db_test reports equals the number of add_paper
\* invocations that have returned success plus those that have inserted
\* their row and not returned yet; cancelled and failed ones do not count.
C8_CountIsInserted ==
    (ret.cmd = "db_test" /\ ret.ok) =>
        ret.val = CountMessage(successes + Cardinality(Returning))

\* C8's case: db_test reports 1 after one ingestion has returned success.
C8_Witness ==
    /\ ret.cmd = "db_test"
    /\ ret.ok
    /\ ret.val = CountMessage(1)
    /\ successes = 1
    /\ Returning = {}

\* C9: the copy has succeeded before insert_paper is called, so every row's
\* pdf_path names a file that exists in managed storage.
C9_RowHasFile ==
    /\ \A t \in Tasks :
          pc[t] \in {"insert", "return"} => (Managed(final_dest[t]) /\ exists(final_dest[t]))
    /\ \A i \in 1..Len(rows) :
          Managed(rows[i].pdf_path) /\ exists(rows[i].pdf_path)

\* C9's case: one row is stored and another copy is done, its row not yet inserted.
C9_Witness ==
    /\ Len(rows) = 1
    /\ \E t \in Tasks : pc[t] = "insert" /\ final_dest[t] # rows[1].pdf_path

\* C10: an add_paper invocation that returns an error ends there, from a
\* step at or before insert_paper, and has inserted no row.
C10_ErrorInsertsNothing ==
    [][\A t \in Tasks :
          (pc[t] # "idle" /\ pc'[t] = "idle" /\ ~ret'.ok) =>
              /\ ret'.cmd = "add_paper"
              /\ pc[t] \in {"selected", "resolve", "copy", "insert"}
              /\ rows' = rows
              /\ \A i \in 1..Len(origin') : origin'[i].inv # inv[t]]_vars

\* C10's case: an add_paper has returned its copy's failure, with a paper stored.
C10_Witness ==
    /\ ret.cmd = "add_paper"
    /\ ~ret.ok
    /\ StartsWith(ret.val, "Copy failed")
    /\ Len(rows) = 1

\* C11: when insert_paper fails after a successful copy, add_paper returns
\* the error "Database insert failed: ...", the table has no new row, and
\* the copied file stays at the destination: nothing is rolled back.
C11_InsertFailureLeavesFile ==
    [][\A t \in Tasks :
          (pc[t] = "insert" /\ pc'[t] = "idle") =>
              /\ ret'.cmd = "add_paper"
              /\ ~ret'.ok
              /\ StartsWith(ret'.val, "Database insert failed: ")
              /\ rows' = rows
              /\ seq' = seq
              /\ files' = files
              /\ final_dest[t] \in DOMAIN files']_vars

\* C11's case: an insert has failed, and the copy is on disk with no row at all.
C11_Witness ==
    /\ ret.cmd = "add_paper"
    /\ ~ret.ok
    /\ StartsWith(ret.val, "Database insert failed: ")
    /\ rows = <<>>
    /\ exists(join(PapersDir, "paper.pdf"))
    /\ files[join(PapersDir, "paper.pdf")] = "AA"

\* C12: nothing ties the existence check to the copy or the insert: a task
\* that left the loop can always copy to its destination, whether or not a
\* file has appeared there since, and a task that copied can always insert
\* its row, whether or not a row has that path already; a copy that
\* succeeds leaves the copier's bytes at the destination.
C12_CheckThenCopyRace ==
    \A t \in Tasks :
        /\ pc[t] = "copy" =>
              LET c == fs_copy(files, selected_path[t].v, final_dest[t], "ok")
              IN /\ c.res.ok
                 /\ c.fs[final_dest[t]] = files[selected_path[t].v]
        /\ pc[t] = "insert" =>
              LET i == insert_paper(DeriveTitle(final_dest[t]), final_dest[t], now, "ok")
              IN /\ i.res.ok
                 /\ Len(i.rows) = Len(rows) + 1
                 /\ i.rows[Len(i.rows)].pdf_path = final_dest[t]

\* C12's case: two ingestions of sources named paper.pdf both found
\* papers/paper.pdf free and both copied; the later copy replaced the
\* earlier one, and both rows have that path.
C12_Witness ==
    /\ Len(rows) = 2
    /\ rows[1].pdf_path = join(PapersDir, "paper.pdf")
    /\ rows[2].pdf_path = join(PapersDir, "paper.pdf")
    /\ origin[1].src # origin[2].src
    /\ \E i \in 1..2 : files[join(PapersDir, "paper.pdf")] # SourceBytes(origin[i].src)
    /\ \E i \in 1..2 : files[join(PapersDir, "paper.pdf")] = SourceBytes(origin[i].src)

\* Number of files in the papers directory.
ManagedCount == Cardinality({p \in DOMAIN files : Managed(p)})

\* C13: with one ingestion at a time the destination loop terminates within
\* (files in the directory + 1) existence checks.  counter - 1 is the number
\* of checks that found a file: it never exceeds the number of files, and
\* once it equals that number the next check finds the candidate absent;
\* a task that left the loop made counter checks, at most files + 1, and
\* its accepted candidate is absent, as its last check found it.
C13_LoopTerminates ==
    \A t \in Tasks :
        /\ pc[t] = "exists" =>
              /\ counter[t] - 1 <= ManagedCount
              /\ counter[t] - 1 = ManagedCount => ~exists(final_dest[t])
        /\ pc[t] = "copy" =>
              /\ counter[t] <= ManagedCount + 1
              /\ ~exists(final_dest[t])

\* C13's case: two files in the directory, both candidates before the
\* accepted one exist, and the loop left at its third check.
C13_Witness ==
    \E t \in Tasks :
        /\ pc[t] = "copy"
        /\ ManagedCount = 2
        /\ counter[t] = 3
        /\ final_dest[t] = join(PapersDir, "paper_2.pdf")

\* C14: the papers table only grows: every step keeps the rows there are,
\* with their id, title and pdf_path, and adds at most one row at the end;
\* a new row's id is greater than every id issued before; ids are unique.
C14_AppendOnly ==
    [][/\ Len(rows') \in {Len(rows), Len(rows) + 1}
       /\ \A i \in 1..Len(rows) :
             /\ rows'[i].id = rows[i].id
             /\ rows'[i].title = rows[i].title
             /\ rows'[i].pdf_path = rows[i].pdf_path
       /\ Len(rows') = Len(rows) + 1 =>
             /\ rows'[Len(rows')].id > seq
             /\ \A i \in 1..Len(rows) : rows'[Len(rows')].id > rows[i].id
       /\ \A i, j \in 1..Len(rows') : i # j => rows'[i].id # rows'[j].id]_vars

\* C14's case: two ingestions returned and the second row's id is the greater.
C14_Witness ==
    /\ Len(rows) = 2
    /\ rows[1].id < rows[2].id
    /\ successes = 2

\* Position in a listing of the row with this id.
Pos(listing, id) == CHOOSE k \in 1..Len(listing) : listing[k].id = id

\* C15 as stated: in every listing, a row inserted after another comes
\* before it.
C15_NewestFirstAlways ==
    (ret.cmd = "get_papers" /\ ret.ok) =>
        \A a, b \in 1..Len(rows) :
            a < b => Pos(ret.val, rows[b].id) < Pos(ret.val, rows[a].id)

\* C15: in every listing, a row inserted after another with a later
\* created_at comes before it; rows inserted within the same second of the
\* store's clock have equal created_at and come in either order.
C15_NewestFirst ==
    (ret.cmd = "get_papers" /\ ret.ok) =>
        \A a, b \in 1..Len(rows) :
            (a < b /\ rows[b].created_at > rows[a].created_at) =>
                Pos(ret.val, rows[b].id) < Pos(ret.val, rows[a].id)

\* C15's case: A's ingestion returned, B's began and returned with a later
\* created_at, and the listing has B first.
C15_Witness ==
    /\ ret.cmd = "get_papers"
    /\ ret.ok
    /\ successes = 2
    /\ rows[2].created_at > rows[1].created_at
    /\ origin[1].inv < origin[2].inv
    /\ ret.val = <<rows[2], rows[1]>>

\* The base name of a managed file.
BaseName(p) == SubSeq(p, Len(PapersDir) + 2, Len(p))

\* C17: every row's pdf_path is the destination its ingestion copied to, a
\* file of the papers directory, and its title is that file's base name
\* without the extension (papers/paper_1.pdf has title paper_1), never
\* empty; the success message is "Paper added successfully: " and the title.
C17_TitleFromDestination ==
    /\ \A k \in 1..Len(rows) :
          /\ Managed(rows[k].pdf_path)
          /\ rows[k].title = StripOnePdf(BaseName(rows[k].pdf_path))
          /\ rows[k].title # ""
          /\ rows[k].pdf_path = join(PapersDir, "paper_1.pdf") => rows[k].title = "paper_1"
    /\ \A t \in Tasks :
          pc[t] = "return" =>
              \E k \in 1..Len(rows) :
                  /\ origin[k].inv = inv[t]
                  /\ rows[k].pdf_path = final_dest[t]
    /\ (ret.cmd = "add_paper" /\ ret.ok /\ ret.val # "No file selected") =>
          \E k \in 1..Len(rows) :
              /\ origin[k].inv = ret.inv
              /\ ret.val = "Paper added successfully: " \o rows[k].title

\* C17's case: a second paper.pdf was stored as paper_1.pdf and its
\* ingestion returned the message with the title paper_1.
C17_Witness ==
    /\ ret.cmd = "add_paper"
    /\ ret.ok
    /\ ret.val = "Paper added successfully: paper_1"
    /\ Len(rows) = 2
    /\ origin[2].inv = ret.inv
    /\ rows[2].pdf_path = join(PapersDir, "paper_1.pdf")
    /\ rows[2].title = "paper_1"

\* The commands that only read.
ReadOnlyCommands == {"get_papers", "db_test", "read_pdf_file"}

\* C20: a step of get_papers, db_test or read_pdf_file, whether it returns
\* a value or an error and whatever the ingestions in flight, leaves the
\* table, the id sequence, the files and the ingestions' state as they
\* were; a step that changes the table or the files is a copy or an insert
\* of an add_paper.
C20_ReadOnlyCommands ==
    [][/\ ret'.cmd \in ReadOnlyCommands =>
             /\ rows' = rows
             /\ seq' = seq
             /\ files' = files
             /\ papers_dir' = papers_dir
             /\ pc' = pc
             /\ UNCHANGED locals
       /\ (rows' # rows \/ files' # files) =>
             \E t \in Tasks : pc[t] \in {"copy", "insert"} /\ pc'[t] # pc[t]]_vars

\* C20's case: a stored file is read while another ingestion is between its
\* copy and its insert.
C20_Witness ==
    /\ ret.cmd = "read_pdf_file"
    /\ ret.ok
    /\ Len(rows) = 1
    /\ \E t \in Tasks : pc[t] = "insert"

\* C16: at most max_connections (5) statements hold a connection of the
\* pool, however many inserts, listings and counts are sent at once; a
\* statement sent while 5 are held cannot get a connection and waits, and a
\* waiting statement can get one as soon as fewer than 5 are held.
C16_PoolLimit ==
    /\ Cardinality(Holding) <= max_connections
    /\ \A r \in Requests :
          conn[r].st = "waiting" =>
              (ENABLED Acquire(r) <=> Cardinality(Holding) < max_connections)

\* C16's case: five statements hold a connection and a sixth waits.
C16_Witness ==
    /\ Cardinality(Holding) = max_connections
    /\ \E r \in Requests : conn[r].st = "waiting"
    /\ {conn[r].op : r \in Holding} = Statements

\* The c-th character of s.
Char(s, c) == SubSeq(s, c, c)

\* C18: the locator init_db connects with is "file:", the normalized
\* database path and "?mode=rwc".  For a path that begins with the marker
\* \\?\ the normalized path is the path without those 4 characters and with
\* every backslash replaced by a slash; for any other path it is the path
\* with every backslash replaced by a slash, and nothing removed.
C18_Locator ==
    db_url # "" =>
        LET off == IF StartsWith(db_path, Marker) THEN 4 ELSE 0
            out == SubSeq(db_url, 6, Len(db_url) - 9)
        IN /\ StartsWith(db_url, "file:")
           /\ EndsWith(db_url, "?mode=rwc")
           /\ Len(out) = Len(db_path) - off
           /\ \A c \in 1..Len(out) :
                 Char(out, c) = IF Char(db_path, c + off) = "\\"
                                THEN "/"
                                ELSE Char(db_path, c + off)

\* C18's case: init_db has run on the marker followed by c\c/\ .
C18_Witness ==
    /\ ret.cmd = "init_db"
    /\ db_path = Marker \o "c\\c/\\"
    /\ db_url = "file:c/c//?mode=rwc"

\* C19: init_db run again on the database of an earlier run, where the
\* papers table exists, leaves its rows and its id sequence as they are and,
\* when the database answers, succeeds: init_tables reports no error and the
\* application comes up.
C19_InitTablesIdempotent ==
    [][(app = "down" /\ ret'.cmd = "init_db") =>
           /\ rows' = rows
           /\ seq' = seq
           /\ init_tables("ok").res.ok
           /\ init_tables("ok").rows = rows
           /\ ret'.ok <=> app' = "up"
           /\ ~ret'.ok => \/ StartsWith(ret'.val, "Database connection failed: ")
                          \/ StartsWith(ret'.val, "Failed to create table: ")]_vars

\* C19's case: the application was restarted on a database with a row, and
\* the row is still there.
C19_Witness ==
    /\ ret.cmd = "init_db"
    /\ ret.ok
    /\ app = "up"
    /\ Len(rows) >= 1

====
